---- MODULE Spec2Model ----
(***************************************************************************)
(* Model of the folder-rules plugin (src/main.ts): the rule evaluation and  *)
(* edge-triggered routing done by FolderRulesPlugin.handleMetadataChange,   *)
(* checkRuleConditions and moveFile, with the two caches it keeps           *)
(* (lastMetadataCache, appliedRulesCache).                                  *)
(*                                                                         *)
(* Strings are sequences of one-character strings, so that startsWith,     *)
(* includes and the template `${destinationFolder}/${file.name}` are       *)
(* computed the way JavaScript computes them.                              *)
(*                                                                         *)
(* Spec is the plugin with rules on string values. SpecValues gives it     *)
(* contains and regex rules and a numeric field value, SpecConditions      *)
(* calls checkRuleConditions by itself, and SpecSettings adds the rule     *)
(* list as loaded from data.json and as the settings tab changes it, and   *)
(* SpecChain follows the notifications that come after each move.          *)
(***************************************************************************)
EXTENDS Integers, Sequences, FiniteSets, TLC

\* ------------------------------------------------------------------ bounds
\* change notifications delivered by the host in one behaviour
MaxEvents == 3
\* handleMetadataChange invocations that may be suspended at an await at once
MaxHandlers == 2
\* rules in settings.rules
MaxRules == 2

\* ----------------------------------------------------------------- strings
\* String.prototype.startsWith
StartsWith(s, p) == Len(p) <= Len(s) /\ SubSeq(s, 1, Len(p)) = p

\* String.prototype.includes
Includes(s, p) == \E k \in 0..(Len(s) - Len(p)) : SubSeq(s, k + 1, k + Len(p)) = p

\* the folders of the vault: "I", its sibling "I2", its child "I/s", and "D"
FolderI == <<"I">>
FolderI2 == <<"I", "2">>
FolderIs == <<"I", "/", "s">>
FolderD == <<"D">>
Folders == {FolderI, FolderI2, FolderIs, FolderD}

\* file.name of the one document of the vault
FileName == <<"a">>

\* `${destinationFolder}/${file.name}`
NewPathOf(destinationFolder) == destinationFolder \o <<"/">> \o FileName

Paths == {NewPathOf(f) : f \in Folders}

\* the folder really contains the document: the path is the folder, a "/",
\* and a remainder (what "path-prefix" of a folder means in the vault)
FolderContains(folder, path) == StartsWith(path, folder \o <<"/">>)

\* ------------------------------------------------------ frontmatter values
\* a frontmatter value: a string, a number, or undefined (the key is missing)
Str(cs) == [kind |-> "string", chars |-> cs, num |-> 0]
Num(n) == [kind |-> "number", chars |-> <<>>, num |-> n]
Undefined == [kind |-> "undefined", chars |-> <<>>, num |-> 0]

\* JavaScript truthiness of a value: "", 0 and undefined are falsy
Truthy(v) ==
  CASE v.kind = "string" -> v.chars # <<>>
    [] v.kind = "number" -> v.num # 0
    [] OTHER -> FALSE

Fields == {"status", "tag"}

\* a frontmatter object: every key of Fields, undefined when missing;
\* FmStatus(v) is {status: v}
EmptyFrontmatter == [f \in Fields |-> Undefined]
FmStatus(v) == [f \in Fields |-> IF f = "status" THEN v ELSE Undefined]

\* CachedMetadata as getFileCache returns it: null, or an object whose
\* frontmatter is undefined or a frontmatter object
NullMetadata == [isNull |-> TRUE, hasFrontmatter |-> FALSE, frontmatter |-> EmptyFrontmatter]
NoFrontmatter == [isNull |-> FALSE, hasFrontmatter |-> FALSE, frontmatter |-> EmptyFrontmatter]
WithFrontmatter(fm) == [isNull |-> FALSE, hasFrontmatter |-> TRUE, frontmatter |-> fm]

Done == <<"d">>
Todo == <<"t">>

\* the metadata the host can hold for the document
FileCaches ==
  { NullMetadata, NoFrontmatter,
    WithFrontmatter(FmStatus(Str(Done))), WithFrontmatter(FmStatus(Str(Todo))) }

\* ------------------------------------------------------------- conditions
\* new RegExp(pattern) over the patterns of the model: literal characters,
\* an optional leading "^" and trailing "$"; a "[" is never closed in this
\* alphabet, so a pattern holding one does not compile (SyntaxError)
RegexCompiles(pattern) == \A k \in 1..Len(pattern) : pattern[k] # "["

RegexBody(pattern) ==
  LET from == IF Len(pattern) > 0 /\ pattern[1] = "^" THEN 2 ELSE 1
      to == IF Len(pattern) > 0 /\ pattern[Len(pattern)] = "$"
            THEN Len(pattern) - 1 ELSE Len(pattern)
  IN  SubSeq(pattern, from, to)

\* regex.test(s) for a pattern that compiles
RegexTest(pattern, s) ==
  LET body == RegexBody(pattern)
      head == Len(pattern) > 0 /\ pattern[1] = "^"
      tail == Len(pattern) > 0 /\ pattern[Len(pattern)] = "$"
  IN  CASE head /\ tail -> s = body
        [] head -> StartsWith(s, body)
        [] tail -> Len(body) <= Len(s)
                   /\ SubSeq(s, Len(s) - Len(body) + 1, Len(s)) = body
        [] OTHER -> Includes(s, body)

\* String(value), as regex.test coerces its argument
ToStr(v) == IF v.kind = "string" THEN v.chars ELSE <<ToString(v.num)>>

\* getMetadataValue: metadata.frontmatter[field], undefined without frontmatter
getMetadataValue(metadata, field) ==
  IF ~metadata.hasFrontmatter THEN Undefined ELSE metadata.frontmatter[field]

\* variant of line 164 with the loose comparison `==`, which converts a number
\* to its string
ConditionResult_LooseEquals(metadata, condition) ==
  LET value == getMetadataValue(metadata, condition.field)
  IN  IF ~Truthy(value) THEN "false"
      ELSE CASE condition.operator = "equals" ->
                  IF ToStr(value) = condition.value THEN "true" ELSE "false"
             [] condition.operator = "contains" ->
                  IF value.kind # "string" THEN "throw"
                  ELSE IF Includes(value.chars, condition.value)
                       THEN "true" ELSE "false"
             [] condition.operator = "regex" ->
                  IF RegexCompiles(condition.value)
                     /\ RegexTest(condition.value, ToStr(value))
                  THEN "true" ELSE "false"
             [] OTHER -> "false"

\* variant of lines 169-179 without the try/catch: a pattern that does not
\* compile throws out of checkRuleConditions
ConditionResult_RegexUncaught(metadata, condition) ==
  LET value == getMetadataValue(metadata, condition.field)
  IN  IF ~Truthy(value) THEN "false"
      ELSE CASE condition.operator = "equals" ->
                  IF value.kind = "string" /\ value.chars = condition.value
                  THEN "true" ELSE "false"
             [] condition.operator = "contains" ->
                  IF value.kind # "string" THEN "throw"
                  ELSE IF Includes(value.chars, condition.value)
                       THEN "true" ELSE "false"
             [] condition.operator = "regex" ->
                  IF ~RegexCompiles(condition.value) THEN "throw"
                  ELSE IF RegexTest(condition.value, ToStr(value))
                       THEN "true" ELSE "false"
             [] OTHER -> "false"

\* one pass of the loop body of checkRuleConditions for one condition:
\* "false" (return false), "true" (go on), "throw" (a TypeError escapes)
ConditionResult(metadata, condition) ==
  LET value == getMetadataValue(metadata, condition.field)
  IN  IF ~Truthy(value) THEN "false"
      ELSE CASE condition.operator = "equals" ->
                  IF value.kind = "string" /\ value.chars = condition.value
                  THEN "true" ELSE "false"
             [] condition.operator = "contains" ->
                  IF value.kind # "string" THEN "throw"
                  ELSE IF Includes(value.chars, condition.value)
                       THEN "true" ELSE "false"
             [] condition.operator = "regex" ->
                  IF RegexCompiles(condition.value)
                     /\ RegexTest(condition.value, ToStr(value))
                  THEN "true" ELSE "false"
             [] OTHER -> "false"

RECURSIVE CheckFrom(_, _, _)
CheckFrom(conditions, metadata, k) ==
  IF k > Len(conditions) THEN "true"
  ELSE LET r == ConditionResult(metadata, conditions[k])
       IN  IF r = "true" THEN CheckFrom(conditions, metadata, k + 1) ELSE r

\* variant of the loop that keeps only the result of the last condition
checkRuleConditions_LastOnly(rule, metadata) ==
  IF ~metadata.hasFrontmatter THEN "false"
  ELSE IF rule.conditions = <<>> THEN "true"
  ELSE ConditionResult(metadata, rule.conditions[Len(rule.conditions)])

\* checkRuleConditions(rule, metadata): "true", "false" or "throw"
checkRuleConditions(rule, metadata) ==
  IF ~metadata.hasFrontmatter THEN "false"
  ELSE CheckFrom(rule.conditions, metadata, 1)

\* ------------------------------------------------------------------ rules
Condition(f, op, v) == [field |-> f, operator |-> op, value |-> v]
StatusIsDone == Condition("status", "equals", Done)

Rule(src, dst, conds) ==
  [id |-> 0, sourceFolder |-> src, destinationFolder |-> dst, conditions |-> conds]

\* the rules a user can configure in the model
RuleShapes ==
  { Rule(FolderI, FolderD, <<StatusIsDone>>),
    Rule(FolderI, FolderI2, <<StatusIsDone>>),
    Rule(FolderI, FolderIs, <<StatusIsDone>>),
    Rule(FolderD, FolderI, <<>>) }

\* `rule-${Date.now()}-${index}`: the rules of a list get distinct ids, here
\* the position at which the rule was added
WithIds(list) == [k \in DOMAIN list |-> [list[k] EXCEPT !.id = k]]

RuleLists ==
  { WithIds(l) : l \in UNION { [1..n -> RuleShapes] : n \in 1..MaxRules } }


\* ------------------------------------------------------------------ state
VARIABLES
  enabled,            \* settings.enabled
  rules,              \* settings.rules
  docPath,            \* file.path of the document, kept current by the host
  lastMetadataCache,  \* this.lastMetadataCache
  appliedRulesCache,  \* this.appliedRulesCache
  handlers,           \* the handleMetadataChange invocations and their locals
  events,             \* change notifications delivered so far
  now,                \* Date.now(), read when a rule id is generated
  log                 \* history: one record per handled notification

vars == <<enabled, rules, docPath, lastMetadataCache,
          appliedRulesCache, handlers, events, now, log>>

\* an entry of lastMetadataCache: undefined, or the frontmatter stored
NoSnapshot == [present |-> FALSE, frontmatter |-> EmptyFrontmatter]
Snapshot(fm) == [present |-> TRUE, frontmatter |-> fm]

\* an entry of appliedRulesCache: undefined, or a Set of rule ids
NoSet == [present |-> FALSE, ids |-> {}]
SetOf(ids) == [present |-> TRUE, ids |-> ids]

\* metadata.frontmatter || {}
FrontmatterOrEmpty(metadata) ==
  IF metadata.hasFrontmatter THEN metadata.frontmatter ELSE EmptyFrontmatter

HandlerIds == 1..MaxHandlers

IdleHandler ==
  [pc |-> "idle", filePath |-> <<>>, metadata |-> NullMetadata,
   oldMetadata |-> NoSnapshot, matchingRules |-> <<>>, i |-> 0,
   matchesNow |-> FALSE, matchedBefore |-> FALSE, newPath |-> <<>>, ev |-> 0]

\* the record the history keeps of one handled notification
LogEntry(path, metadata, old, applied, candidates, active) ==
  [path |-> path, metadata |-> metadata, old |-> old, active |-> active,
   appliedAtStart |-> applied, candidates |-> candidates,
   evaluated |-> <<>>, attempts |-> <<>>, outcome |-> "none", to |-> <<>>,
   appliedBeforeMove |-> NoSet, returned |-> FALSE, threw |-> FALSE,
   cacheAtReturn |-> NoSnapshot,
   appliedAtReturn |-> [q \in Paths |-> NoSet]]

Init ==
  /\ enabled = TRUE
  /\ rules \in RuleLists
  /\ docPath \in Paths
  /\ lastMetadataCache = [q \in Paths |-> NoSnapshot]
  /\ appliedRulesCache = [q \in Paths |-> NoSet]
  /\ handlers = [h \in HandlerIds |-> IdleHandler]
  /\ events = 0
  /\ now = 0
  /\ log = <<>>

\* ----------------------------------------------- handleMetadataChange steps
\* variant of line 63 placed after line 74: the read sees the entry just stored
OldMetadataRead_AfterStore(cache, filePath, written) == written

\* line 63: const oldMetadata = this.lastMetadataCache[filePath], read before
\* line 74 writes the entry; `written` is what line 74 is about to store
OldMetadataRead(cache, filePath, written) == cache[filePath]

\* variant of line 74 that stores the snapshot only once a path has none
StoreSnapshot_Once(cache, filePath, metadata) ==
  IF cache[filePath].present THEN cache
  ELSE [cache EXCEPT ![filePath] = Snapshot(FrontmatterOrEmpty(metadata))]

\* line 74: this.lastMetadataCache[filePath] = metadata.frontmatter || {}
StoreSnapshot(cache, filePath, metadata) ==
  [cache EXCEPT ![filePath] = Snapshot(FrontmatterOrEmpty(metadata))]

\* lines 77-79: create the Set of the path when it has none
EnsureSet(applied, filePath) ==
  IF applied[filePath].present THEN applied
  ELSE [applied EXCEPT ![filePath] = SetOf({})]

\* variant of lines 82-85 that does not consult the applied Set
IsCandidate_IgnoreApplied(rule, filePath, appliedIds) ==
  StartsWith(filePath, rule.sourceFolder)

\* lines 82-85: the filter that builds matchingRules
IsCandidate(rule, filePath, appliedIds) ==
  StartsWith(filePath, rule.sourceFolder) /\ rule.id \notin appliedIds

\* level-triggered variant of line 118: the previous match is not consulted
WillMove_Level(matchesNow, matchedBefore) == matchesNow

\* line 118: if (matchesNow && !matchedBefore)
WillMove(matchesNow, matchedBefore) == matchesNow /\ ~matchedBefore

\* line 105: the call of checkRuleConditions(rule, metadata) that opens the
\* k-th iteration of the loop, up to its await; past the last rule the handler
\* returns; a TypeError thrown by the evaluation rejects the handler's promise
EnterIteration(hr, k) ==
  IF k > Len(hr.matchingRules) THEN [hr EXCEPT !.pc = "return"]
  ELSE LET r == checkRuleConditions(hr.matchingRules[k], hr.metadata)
       IN  IF r = "throw" THEN [hr EXCEPT !.pc = "throw"]
           ELSE [hr EXCEPT !.pc = "awaitNow", !.i = k,
                           !.matchesNow = (r = "true"), !.matchedBefore = FALSE]

\* lines 118-119 and 198-205: move, up to the await of renameFile, or go on
\* with the next rule
Decide(hr) ==
  IF WillMove(hr.matchesNow, hr.matchedBefore)
  THEN [hr EXCEPT !.pc = "awaitRename",
                  !.newPath = NewPathOf(hr.matchingRules[hr.i].destinationFolder)]
  ELSE EnterIteration(hr, hr.i + 1)

\* variant of line 125 without the break: the loop goes on after the move
AfterMoveFile_NoBreak(hr) == EnterIteration(hr, hr.i + 1)

\* line 125: break, so the handler returns after the move
AfterMoveFile(hr) == [hr EXCEPT !.pc = "return"]

\* lines 207-210 of moveFile, run after renameFile resolved; filePathNow is
\* file.path as the host has it then
Rekey(applied, filePathNow, newPath) ==
  IF applied[filePathNow].present
  THEN [[applied EXCEPT ![newPath] = applied[filePathNow]]
          EXCEPT ![filePathNow] = NoSet]
  ELSE applied

\* variant of moveFile that carries the snapshot of the path read at line 61
\* over to the new path
SnapshotsAfterMove_Rekey(cache, filePath, newPath) ==
  [[cache EXCEPT ![newPath] = cache[filePath]] EXCEPT ![filePath] = NoSnapshot]

\* lines 206-213 of moveFile: no statement touches lastMetadataCache
SnapshotsAfterMove(cache, filePath, newPath) == cache

\* line 121: this.appliedRulesCache[filePath].add(rule.id)
MarkApplied(applied, filePath, id) ==
  [applied EXCEPT ![filePath] = SetOf(@.ids \cup {id})]

\* ---------------------------------------------------------------- history
LogStep(entry, old, nh, cache, applied) ==
  LET id == nh.matchingRules[nh.i].id
      e1 == IF nh.pc = "awaitNow"
            THEN [entry EXCEPT !.evaluated = Append(@, id)] ELSE entry
      e2 == IF nh.pc = "awaitRename" /\ old.pc # "awaitRename"
            THEN [e1 EXCEPT !.attempts = Append(@, id), !.outcome = "pending",
                            !.to = nh.newPath]
            ELSE e1
  IN  IF nh.pc \in {"return", "throw"}
      THEN [e2 EXCEPT !.returned = TRUE, !.threw = (nh.pc = "throw"),
                      !.cacheAtReturn = cache[entry.path],
                      !.appliedAtReturn = applied]
      ELSE e2

\* handler h goes from handlers[h] to nh; a handler that returned or threw
\* frees its slot
Settle(h, nh, cache, applied, lg) ==
  /\ handlers' = [handlers EXCEPT
        ![h] = IF nh.pc \in {"return", "throw"} THEN IdleHandler ELSE nh]
  /\ log' = [lg EXCEPT ![nh.ev] = LogStep(@, handlers[h], nh, cache, applied)]
  /\ lastMetadataCache' = cache
  /\ appliedRulesCache' = applied

\* ---------------------------------------------------------------- actions
\* lines 38-43: the ribbon icon toggles settings.enabled
ToggleEnabled ==
  /\ enabled' = ~enabled
  /\ UNCHANGED <<now, rules, docPath, lastMetadataCache,
                 appliedRulesCache, handlers, events, log>>

\* variant of line 65 that goes on without metadata
IsHandled_WithoutMetadata(enabledNow, fileCache) == enabledNow

\* lines 48, 59 and 65: the notification is handled when the plugin is enabled
\* and getFileCache(file) returns metadata; otherwise the handler returns
IsHandled(enabledNow, fileCache) == enabledNow /\ ~fileCache.isNull

\* the free slot a new invocation takes: the lowest one
FreeSlot(h) ==
  /\ handlers[h].pc = "idle"
  /\ \A g \in HandlerIds : g < h => handlers[g].pc # "idle"

\* lines 47-51, 59 and 65: a 'changed' notification that is not handled: the
\* plugin is disabled, or getFileCache(file) returns null
NotifyIgnored ==
  /\ events < MaxEvents
  /\ \E fileCache \in FileCaches : ~IsHandled(enabled, fileCache)
  /\ events' = events + 1
  /\ UNCHANGED <<enabled, now, rules, docPath, lastMetadataCache,
                 appliedRulesCache, handlers, log>>

\* lines 47-51 and 59-105: a 'changed' notification starts handleMetadataChange,
\* which runs without suspending up to the first await of the loop (or to its
\* return when no rule is a candidate); fileCache is what getFileCache(file)
\* returns, the document's metadata as edited (or re-saved) before the event
HandleNotification(h, fileCache) ==
  /\ FreeSlot(h)
  /\ IsHandled(enabled, fileCache)
  /\ events' = events + 1
  /\ LET filePath == docPath
         metadata == fileCache
         written == Snapshot(FrontmatterOrEmpty(metadata))
         oldMetadata == OldMetadataRead(lastMetadataCache, filePath, written)
         cache == StoreSnapshot(lastMetadataCache, filePath, metadata)
         applied == EnsureSet(appliedRulesCache, filePath)
         matching == SelectSeq(rules,
                       LAMBDA r : IsCandidate(r, filePath, applied[filePath].ids))
         hr == [IdleHandler EXCEPT !.filePath = filePath, !.metadata = metadata,
                                   !.oldMetadata = oldMetadata,
                                   !.matchingRules = matching,
                                   !.ev = Len(log) + 1]
         entry == LogEntry(filePath, metadata, oldMetadata,
                           appliedRulesCache[filePath].ids,
                           [k \in DOMAIN matching |-> matching[k].id],
                           { <<handlers[g].ev, handlers[g].pc>> :
                               g \in {x \in HandlerIds : handlers[x].pc # "idle"} })
     IN  Settle(h, EnterIteration(hr, 1), cache, applied, Append(log, entry))
  /\ UNCHANGED <<enabled, now, rules, docPath>>

\* one of the MaxEvents notifications of a behaviour is handled
NotifyHandled(h, fileCache) ==
  /\ events < MaxEvents
  /\ HandleNotification(h, fileCache)

\* line 106, resumed after the await of line 105: matchedBefore; without a
\* previous snapshot `oldMetadata && ...` does not await and line 118 follows
ResumeNow(h) ==
  /\ handlers[h].pc = "awaitNow"
  /\ LET hr == handlers[h]
         r == checkRuleConditions(hr.matchingRules[hr.i],
                                  WithFrontmatter(hr.oldMetadata.frontmatter))
         nh == IF ~hr.oldMetadata.present THEN Decide(hr)
               ELSE IF r = "throw" THEN [hr EXCEPT !.pc = "throw"]
               ELSE [hr EXCEPT !.pc = "awaitBefore", !.matchedBefore = (r = "true")]
     IN  Settle(h, nh, lastMetadataCache, appliedRulesCache, log)
  /\ UNCHANGED <<enabled, now, rules, docPath, events>>

\* line 118, resumed after the await of line 106
ResumeBefore(h) ==
  /\ handlers[h].pc = "awaitBefore"
  /\ Settle(h, Decide(handlers[h]), lastMetadataCache, appliedRulesCache, log)
  /\ UNCHANGED <<enabled, now, rules, docPath, events>>

\* the host completes renameFile: the document is at newPath, and file.path,
\* a property of the host's TFile, now reads newPath. A rename onto the path
\* the document already has finds the destination taken and cannot succeed.
RenameOk(h) ==
  /\ handlers[h].pc = "awaitRename"
  /\ handlers[h].newPath # docPath
  /\ docPath' = handlers[h].newPath
  /\ handlers' = [handlers EXCEPT ![h].pc = "renamed"]
  /\ log' = [log EXCEPT ![handlers[h].ev].outcome = "ok",
                        ![handlers[h].ev].appliedBeforeMove =
                            appliedRulesCache[handlers[h].filePath]]
  /\ UNCHANGED <<enabled, now, rules, lastMetadataCache,
                 appliedRulesCache, events>>

\* lines 205 and 214-218: renameFile rejects, moveFile catches and returns
RenameFail(h) ==
  /\ handlers[h].pc = "awaitRename"
  /\ handlers' = [handlers EXCEPT ![h].pc = "awaitMove"]
  /\ log' = [log EXCEPT ![handlers[h].ev].outcome = "failed"]
  /\ UNCHANGED <<enabled, now, rules, docPath, lastMetadataCache,
                 appliedRulesCache, events>>

\* lines 206-213: moveFile resumed after the await of renameFile
MoveFileResume(h) ==
  /\ handlers[h].pc = "renamed"
  /\ appliedRulesCache' = Rekey(appliedRulesCache, docPath, handlers[h].newPath)
  /\ lastMetadataCache' = SnapshotsAfterMove(lastMetadataCache,
                             handlers[h].filePath, handlers[h].newPath)
  /\ handlers' = [handlers EXCEPT ![h].pc = "awaitMove"]
  /\ UNCHANGED <<enabled, now, rules, docPath, events, log>>

\* lines 120-125, resumed after the await of moveFile: mark the rule applied
\* under the path read at line 61, then break; .add on a missing Set throws
ResumeMove(h) ==
  /\ handlers[h].pc = "awaitMove"
  /\ LET hr == handlers[h]
         has == appliedRulesCache[hr.filePath].present
         applied == IF has
                    THEN MarkApplied(appliedRulesCache, hr.filePath,
                                     hr.matchingRules[hr.i].id)
                    ELSE appliedRulesCache
         nh == IF has THEN AfterMoveFile(hr) ELSE [hr EXCEPT !.pc = "throw"]
     IN  Settle(h, nh, lastMetadataCache, applied, log)
  /\ UNCHANGED <<enabled, now, rules, docPath, events>>

Next ==
  \/ ToggleEnabled
  \/ NotifyIgnored
  \/ \E h \in HandlerIds, m \in FileCaches : NotifyHandled(h, m)
  \/ \E h \in HandlerIds : ResumeNow(h)
  \/ \E h \in HandlerIds : ResumeBefore(h)
  \/ \E h \in HandlerIds : RenameOk(h)
  \/ \E h \in HandlerIds : RenameFail(h)
  \/ \E h \in HandlerIds : MoveFileResume(h)
  \/ \E h \in HandlerIds : ResumeMove(h)

Spec == Init /\ [][Next]_vars

\* ------------------------------------- frontmatter values of every kind
\* the same plugin with rules that use the operators contains and regex, and a
\* document whose field can hold a number (YAML `status: 5`)
BadPattern == <<"[">>
StatusContainsDone == Condition("status", "contains", Done)
StatusLikeBadPattern == Condition("status", "regex", BadPattern)
StatusLikeDone == Condition("status", "regex", <<"^", "d">>)

ValueRuleShapes ==
  { Rule(FolderI, FolderD, <<StatusContainsDone>>),
    Rule(FolderI, FolderD, <<StatusLikeBadPattern>>),
    Rule(FolderI, FolderD, <<StatusLikeDone>>) }

ValueRuleLists ==
  { WithIds(l) : l \in UNION { [1..n -> ValueRuleShapes] : n \in 1..MaxRules } }

ValueFileCaches ==
  { NullMetadata, NoFrontmatter,
    WithFrontmatter(FmStatus(Str(Done))), WithFrontmatter(FmStatus(Str(Todo))),
    WithFrontmatter(FmStatus(Num(5))) }

InitValues ==
  /\ enabled = TRUE
  /\ rules \in ValueRuleLists
  /\ docPath = NewPathOf(FolderI)
  /\ lastMetadataCache = [q \in Paths |-> NoSnapshot]
  /\ appliedRulesCache = [q \in Paths |-> NoSet]
  /\ handlers = [h \in HandlerIds |-> IdleHandler]
  /\ events = 0
  /\ now = 0
  /\ log = <<>>

NextValues ==
  \/ ToggleEnabled
  \/ NotifyIgnored
  \/ \E h \in HandlerIds, m \in ValueFileCaches : NotifyHandled(h, m)
  \/ \E h \in HandlerIds : ResumeNow(h)
  \/ \E h \in HandlerIds : ResumeBefore(h)
  \/ \E h \in HandlerIds : RenameOk(h)
  \/ \E h \in HandlerIds : RenameFail(h)
  \/ \E h \in HandlerIds : MoveFileResume(h)
  \/ \E h \in HandlerIds : ResumeMove(h)

SpecValues == InitValues /\ [][NextValues]_vars

\* ------------------------------------------ checkRuleConditions by itself
\* the calls of checkRuleConditions(rule, metadata), one per behaviour, over
\* rules of up to MaxConditions conditions and snapshots of every kind; here
\* rules holds the one rule of the call and log the call with its result
MaxConditions == 2

Five == <<"5">>

ConditionsOfCalls ==
  { StatusIsDone, Condition("status", "equals", Five),
    Condition("status", "equals", <<>>), Condition("tag", "equals", Done),
    StatusContainsDone, StatusLikeDone, StatusLikeBadPattern }

RulesOfCalls ==
  { Rule(FolderI, FolderD, cs) :
      cs \in UNION { [1..n -> ConditionsOfCalls] : n \in 0..MaxConditions } }

\* no frontmatter, {} (line 106 passes it after an event without
\* frontmatter), and frontmatter objects with and without each field
MetadataOfCalls ==
  {NoFrontmatter} \cup
  { WithFrontmatter([f \in Fields |-> IF f = "status" THEN v ELSE t]) :
      v \in {Undefined, Str(Done), Str(Todo), Str(<<>>), Str(Five), Num(5), Num(0)},
      t \in {Undefined, Str(Done)} }

InitConditions ==
  /\ enabled = TRUE
  /\ rules \in { <<r>> : r \in RulesOfCalls }
  /\ docPath = NewPathOf(FolderI)
  /\ lastMetadataCache = [q \in Paths |-> NoSnapshot]
  /\ appliedRulesCache = [q \in Paths |-> NoSet]
  /\ handlers = [h \in HandlerIds |-> IdleHandler]
  /\ events = 0
  /\ now = 0
  /\ log = <<>>

\* lines 134-189: one call
CallCheckRuleConditions(metadata) ==
  /\ log = <<>>
  /\ log' = << [rule |-> rules[1], metadata |-> metadata,
                result |-> checkRuleConditions(rules[1], metadata)] >>
  /\ UNCHANGED <<enabled, now, rules, docPath, lastMetadataCache,
                 appliedRulesCache, handlers, events>>

NextConditions == \E metadata \in MetadataOfCalls : CallCheckRuleConditions(metadata)

SpecConditions == InitConditions /\ [][NextConditions]_vars

\* ------------------------------------------------------- the settings tab
\* the same plugin with the rule list as loadSettings finds it in data.json
\* and as the settings tab changes it; ids are as the code generates them
\* generated ids and Date.now() values in one behaviour
MaxClock == 2

\* rule.id of a rule saved without one (by a version of the plugin that had
\* no ids, src/unnamed/part_000, or written by hand)
UndefinedId == <<>>

\* `rule-${Date.now()}-${index}`
RuleId(time, index) == <<time, index>>

\* the rule Add Rule pushes, before its id
BlankRule == Rule(<<>>, <<>>, <<>>)

\* `/${file.name}`, where a rule with destinationFolder '' moves to
RootPath == NewPathOf(<<>>)

SettingsPaths == Paths \cup {RootPath}

SettingsRuleShapes ==
  { Rule(FolderI, FolderD, <<StatusIsDone>>), Rule(FolderD, FolderI, <<>>) }

\* lines 225-227: what loadData returns for rules: each rule saved with the
\* id it got in an earlier session (before any Date.now() of this one), or
\* without id
LoadedRuleLists ==
  { [k \in DOMAIN l |->
       [l[k][1] EXCEPT !.id = IF l[k][2] THEN RuleId(0, k - 1) ELSE UndefinedId]] :
      l \in UNION { [1..n -> SettingsRuleShapes \X BOOLEAN] : n \in 0..MaxRules } }

\* the metadata of the document in these behaviours
SettingsFileCaches ==
  { NullMetadata, NoFrontmatter, WithFrontmatter(FmStatus(Str(Done))) }

InitSettings ==
  /\ enabled = TRUE
  /\ rules \in LoadedRuleLists
  /\ docPath = NewPathOf(FolderI)
  /\ lastMetadataCache = [q \in SettingsPaths |-> NoSnapshot]
  /\ appliedRulesCache = [q \in SettingsPaths |-> NoSet]
  /\ handlers = [h \in HandlerIds |-> IdleHandler]
  /\ events = 0
  /\ now = 0
  /\ log = <<>>

\* the user works in the settings tab while no invocation is suspended, and
\* each of these operations reads a later Date.now() than the one before
SettingsTabIdle == \A h \in HandlerIds : handlers[h].pc = "idle"

\* lines 359-363 of display(): a rule without id gets one
DisplaySettings(time) ==
  /\ SettingsTabIdle
  /\ now' = time
  /\ rules' = [k \in DOMAIN rules |->
                 IF rules[k].id = UndefinedId
                 THEN [rules[k] EXCEPT !.id = RuleId(time, k - 1)]
                 ELSE rules[k]]
  /\ UNCHANGED <<enabled, docPath, lastMetadataCache,
                 appliedRulesCache, handlers, events, log>>

\* lines 519-525: Add Rule pushes a blank rule with a fresh id
AddRule(time) ==
  /\ SettingsTabIdle
  /\ Len(rules) < MaxRules
  /\ now' = time
  /\ rules' = Append(rules, [BlankRule EXCEPT !.id = RuleId(time, Len(rules))])
  /\ UNCHANGED <<enabled, docPath, lastMetadataCache,
                 appliedRulesCache, handlers, events, log>>

\* lines 509 and 514: Delete Rule: this.plugin.settings.rules.splice(index, 1)
DeleteRule(k) ==
  /\ SettingsTabIdle
  /\ k \in DOMAIN rules
  /\ rules' = SubSeq(rules, 1, k - 1) \o SubSeq(rules, k + 1, Len(rules))
  /\ UNCHANGED <<enabled, now, docPath, lastMetadataCache,
                 appliedRulesCache, handlers, events, log>>

NextSettings ==
  \/ \E time \in (now + 1)..MaxClock : DisplaySettings(time)
  \/ \E time \in (now + 1)..MaxClock : AddRule(time)
  \/ \E k \in 1..MaxRules : DeleteRule(k)
  \/ ToggleEnabled
  \/ NotifyIgnored
  \/ \E h \in HandlerIds, m \in SettingsFileCaches : NotifyHandled(h, m)
  \/ \E h \in HandlerIds : ResumeNow(h)
  \/ \E h \in HandlerIds : ResumeBefore(h)
  \/ \E h \in HandlerIds : RenameOk(h)
  \/ \E h \in HandlerIds : RenameFail(h)
  \/ \E h \in HandlerIds : MoveFileResume(h)
  \/ \E h \in HandlerIds : ResumeMove(h)

SpecSettings == InitSettings /\ [][NextSettings]_vars

\* ------------------------------------------------------ relocation chains
\* the same plugin when an edit of the document starts a chain: the host
\* delivers a notification for the edit and then one for the document at its
\* new path after each successful move, with the frontmatter left as it is;
\* rules go from any folder to any folder, a folder inside their own
\* sourceFolder included
\* notifications the host may deliver in one chain
MaxChain == 6

ChainRuleShapes ==
  { Rule(src, dst, conds) :
      src \in Folders, dst \in Folders, conds \in {<<>>, <<StatusIsDone>>} }

ChainRuleLists ==
  { WithIds(l) : l \in UNION { [1..n -> ChainRuleShapes] : n \in 1..MaxRules } }

\* the metadata of the document after the edit
ChainFileCaches == { NoFrontmatter, WithFrontmatter(FmStatus(Str(Done))) }

\* lastMetadataCache holds nothing, or under the document's path the
\* frontmatter it had before the edit
InitChain ==
  /\ enabled = TRUE
  /\ rules \in ChainRuleLists
  /\ docPath \in Paths
  /\ lastMetadataCache \in
       { [q \in Paths |-> IF q = docPath THEN old ELSE NoSnapshot] :
           old \in {NoSnapshot, Snapshot(FmStatus(Str(Todo)))} }
  /\ appliedRulesCache = [q \in Paths |-> NoSet]
  /\ handlers = [h \in HandlerIds |-> IdleHandler]
  /\ events = 0
  /\ now = 0
  /\ log = <<>>

\* lines 47-51: the notification for the edit
NotifyEdit(h, fileCache) ==
  /\ log = <<>>
  /\ HandleNotification(h, fileCache)

\* lines 47-51: the notification that follows the successful move of the
\* latest notification, with the same metadata; the host may deliver it
\* before the invocation that moved has gone on
NotifyAfterMove(h) ==
  /\ log # <<>>
  /\ events < MaxChain
  /\ log[Len(log)].outcome = "ok"
  /\ HandleNotification(h, log[Len(log)].metadata)

NextChain ==
  \/ \E h \in HandlerIds, m \in ChainFileCaches : NotifyEdit(h, m)
  \/ \E h \in HandlerIds : NotifyAfterMove(h)
  \/ \E h \in HandlerIds : ResumeNow(h)
  \/ \E h \in HandlerIds : ResumeBefore(h)
  \/ \E h \in HandlerIds : RenameOk(h)
  \/ \E h \in HandlerIds : RenameFail(h)
  \/ \E h \in HandlerIds : MoveFileResume(h)
  \/ \E h \in HandlerIds : ResumeMove(h)

\* the event loop runs every continuation that is ready, the host settles
\* every renameFile and delivers every notification it owes
SpecChain == InitChain /\ [][NextChain]_vars /\ WF_vars(NextChain)

\* ----------------------------------------------------- reading the history
Range(seq) == {seq[k] : k \in DOMAIN seq}

Min(S) == CHOOSE x \in S : \A y \in S : x <= y
Max(S) == CHOOSE x \in S : \A y \in S : y <= x

\* the handled notifications for the same path that arrived before the n-th
EarlierOnPath(n) == {m \in 1..(n - 1) : log[m].path = log[n].path}

\* the n-th follows the m-th on its path with nothing handled in between
Consecutive(m, n) == EarlierOnPath(n) # {} /\ m = Max(EarlierOnPath(n))

\* the rule matches a snapshot
Matches(rule, metadata) == checkRuleConditions(rule, metadata) = "true"

\* the rising edge of a rule between the previous snapshot and the current one
RisingEdge(rule, metadata, old) ==
  /\ Matches(rule, metadata)
  /\ ~(old.present /\ Matches(rule, WithFrontmatter(old.frontmatter)))

\* the invocation of the n-th notification is suspended before the decision
\* of line 118 on the rule it evaluated last
Undecided(n) ==
  \E h \in HandlerIds :
    handlers[h].ev = n /\ handlers[h].pc \in {"awaitNow", "awaitBefore"}

\* the n-th notification arrived while no invocation was suspended
Quiet(n) == log[n].active = {}

\* the n-th notification arrived at a task boundary: every invocation then
\* suspended was waiting for renameFile, none in the middle of rule evaluation
AtTaskBoundary(n) == \A a \in log[n].active : a[2] = "awaitRename"

\* the candidates of the n-th notification that fire on their own
Firing(n) ==
  {k \in DOMAIN log[n].candidates :
     RisingEdge(rules[log[n].candidates[k]], log[n].metadata, log[n].old)}

\* ------------------------------------------------------------------ claims
\* C1: for every candidate rule the loop has decided on, a move was attempted
\* for it iff the rule matches the current snapshot and did not match the
\* previous snapshot read for the path; without a previous snapshot the rule
\* counts as not matched before, so a rule matching on first sight fires.
C1_MoveIffRisingEdge ==
  \A n \in DOMAIN log :
    \A k \in DOMAIN log[n].evaluated :
      (k < Len(log[n].evaluated) \/ ~Undecided(n)) =>
        LET id == log[n].evaluated[k]
        IN  (id \in Range(log[n].attempts))
              <=> RisingEdge(rules[id], log[n].metadata, log[n].old)

\* a rule fired on the first observation of a path, and another notification
\* left a rule alone that matched both before and now
C1_Witness ==
  /\ \E n \in DOMAIN log : ~log[n].old.present /\ log[n].attempts # <<>>
  /\ \E n \in DOMAIN log :
       /\ log[n].returned /\ log[n].old.present /\ log[n].attempts = <<>>
       /\ \E id \in Range(log[n].evaluated) :
            /\ Matches(rules[id], log[n].metadata)
            /\ Matches(rules[id], WithFrontmatter(log[n].old.frontmatter))

\* C2: idempotence: when two consecutive handled notifications for a path
\* carry the same metadata, the second attempts no move for a rule that the
\* first attempted to move by or that matched the first's snapshot.
C2_Idempotent ==
  \A m, n \in DOMAIN log :
    (Consecutive(m, n) /\ log[m].metadata = log[n].metadata) =>
      \A id \in Range(log[n].attempts) :
        /\ id \notin Range(log[m].attempts)
        /\ ~Matches(rules[id], log[m].metadata)

\* a notification whose rule fired was followed, on the same path and with the
\* same metadata, by one that ran to its end while that rule was still a
\* candidate
C2_Witness ==
  \E m, n \in DOMAIN log :
    /\ Consecutive(m, n) /\ log[m].metadata = log[n].metadata
    /\ log[m].attempts # <<>> /\ log[n].returned
    /\ log[m].attempts[1] \in Range(log[n].evaluated)

\* C3: at most one move per notification: renameFile is called at most once,
\* for the first candidate in the order of settings.rules that fires, no
\* candidate after it is evaluated, and a notification with a firing
\* candidate that has returned made exactly that one call.
C3_OneMovePerEvent ==
  \A n \in DOMAIN log :
    /\ Len(log[n].attempts) <= 1
    /\ log[n].attempts # <<>> =>
         /\ Firing(n) # {}
         /\ log[n].attempts[1] = log[n].candidates[Min(Firing(n))]
         /\ log[n].evaluated = SubSeq(log[n].candidates, 1, Min(Firing(n)))
    /\ (log[n].returned /\ Firing(n) # {}) => Len(log[n].attempts) = 1

\* two candidates would each fire; the move of the first failed in one
\* notification and succeeded in another, and both handlers returned
C3_Witness ==
  /\ \E n \in DOMAIN log :
       log[n].returned /\ Cardinality(Firing(n)) >= 2 /\ log[n].outcome = "failed"
  /\ \E n \in DOMAIN log :
       log[n].returned /\ Cardinality(Firing(n)) >= 2 /\ log[n].outcome = "ok"

\* C4: when renameFile fails for the firing rule, the rule's id is not added
\* to the applied Set of the document's path: once the handler has returned
\* the Set of that path is what it was when the candidates were built.
C4_FailedMoveNotMarked ==
  \A n \in DOMAIN log :
    (log[n].returned /\ log[n].outcome = "failed" /\ Quiet(n)) =>
      /\ log[n].attempts[1] \notin log[n].appliedAtReturn[log[n].path].ids
      /\ log[n].appliedAtReturn[log[n].path].ids = log[n].appliedAtStart

\* C5: rekey law: after a successful move from path A to path B, once the
\* handler has returned, the Set under B holds an id iff the Set under A held
\* it just before the move, and nothing is applied under A.
C5_RekeyLaw ==
  \A n \in DOMAIN log :
    (log[n].returned /\ log[n].outcome = "ok" /\ Quiet(n)) =>
      /\ log[n].appliedAtReturn[log[n].to].ids = log[n].appliedBeforeMove.ids
      /\ log[n].appliedAtReturn[log[n].path].ids = {}

\* C6: after a rule fired and the move succeeded, the rule's id is in the
\* applied Set under the new path once the handler has returned, and no later
\* notification for the document at that path attempts a move by that rule.
C6_FiredRuleRecordedAtNewPath ==
  \A m \in DOMAIN log :
    (log[m].returned /\ log[m].outcome = "ok" /\ Quiet(m)) =>
      /\ log[m].attempts[1] \in log[m].appliedAtReturn[log[m].to].ids
      /\ \A n \in DOMAIN log :
           (n = m + 1 /\ log[n].path = log[m].to /\ Quiet(n)) =>
             log[m].attempts[1] \notin Range(log[n].attempts)

\* C7: for every handled notification the entry of lastMetadataCache for the
\* path at arrival is overwritten with the current snapshot in the step that
\* starts the handler, before any rule is evaluated or any move attempted
\* (so it is there in every state in which the notification is the latest
\* for its path), and the entry holds that snapshot when the handler returns,
\* whether no rule fired, the move succeeded or the move failed. Stated for
\* the behaviours in which every notification arrives at a task boundary.
C7_SnapshotHeldAtReturn ==
  \A n \in DOMAIN log :
    (\A m \in DOMAIN log : AtTaskBoundary(m)) =>
    /\ (\A m \in DOMAIN log : m > n => log[m].path # log[n].path) =>
         lastMetadataCache[log[n].path]
           = Snapshot(FrontmatterOrEmpty(log[n].metadata))
    /\ log[n].returned =>
         log[n].cacheAtReturn = Snapshot(FrontmatterOrEmpty(log[n].metadata))

\* C8: a rule is a candidate for a document only when its sourceFolder
\* contains the document: no move is ever attempted by a rule for a document
\* that lies outside the rule's sourceFolder.
C8_NoMoveOutsideSourceFolder ==
  \A n \in DOMAIN log :
    \A id \in Range(log[n].attempts) :
      FolderContains(rules[id].sourceFolder, log[n].path)

\* C9: a notification for path P that arrives when a rule id is in the applied
\* Set of P attempts no move by that rule, whatever the metadata did before.
C9_AppliedRuleNeverAttempted ==
  \A n \in DOMAIN log :
    \A id \in log[n].appliedAtStart :
      id \notin Range(log[n].candidates) /\ id \notin Range(log[n].attempts)

\* a rule applied under the path has its conditions turn true again (a rising
\* edge under its sourceFolder) and the handler runs to its end
C9_Witness ==
  \E n \in DOMAIN log :
    /\ log[n].returned
    /\ \E id \in log[n].appliedAtStart :
         /\ StartsWith(log[n].path, rules[id].sourceFolder)
         /\ RisingEdge(rules[id], log[n].metadata, log[n].old)

\* C10: the previous snapshot read by the N-th handled notification for a path
\* is the snapshot stored by the (N-1)-th one for that path, in arrival order,
\* and none on the first; also when the earlier invocation is still suspended.
C10_ReadsPreviousWrite ==
  \A n \in DOMAIN log :
    log[n].old =
      IF EarlierOnPath(n) = {} THEN NoSnapshot
      ELSE Snapshot(FrontmatterOrEmpty(log[Max(EarlierOnPath(n))].metadata))

\* a notification arrived, with changed metadata, while the invocation of the
\* previous one for the same path was suspended in rule evaluation, and another
\* while the previous one was awaiting its pending move
C10_Witness ==
  /\ \E n \in DOMAIN log : \E a \in log[n].active :
       /\ Consecutive(a[1], n) /\ a[2] \in {"awaitNow", "awaitBefore"}
       /\ log[a[1]].metadata # log[n].metadata
  /\ \E n \in DOMAIN log : \E a \in log[n].active :
       /\ Consecutive(a[1], n) /\ a[2] = "awaitRename"
       /\ log[a[1]].metadata # log[n].metadata

\* C11: no exception escapes handleMetadataChange: whatever the rules, the
\* frontmatter values (strings or not) and the outcome of renameFile, no
\* invocation ends by throwing.
C11_NoExceptionEscapes ==
  \A n \in DOMAIN log : Quiet(n) => ~log[n].threw

\* a rule has a regex condition whose pattern does not compile
HasBadPattern(rule) ==
  \E k \in DOMAIN rule.conditions :
    /\ rule.conditions[k].operator = "regex"
    /\ ~RegexCompiles(rule.conditions[k].value)

\* the candidates of the n-th notification use no operator but equals and regex
OnlyEqualsAndRegex(n) ==
  \A k \in DOMAIN log[n].candidates :
    \A c \in DOMAIN rules[log[n].candidates[k]].conditions :
      rules[log[n].candidates[k]].conditions[c].operator \in {"equals", "regex"}

\* C12: a regex condition whose pattern does not compile is false and throws
\* nothing: the handler never throws while evaluating (only after a move was
\* attempted), a rule holding such a condition never has a move attempted, and
\* the candidates after it are evaluated in order, up to the first one that
\* fires, which is the one moved by.
C12_BadPatternIsFalse ==
  \A n \in DOMAIN log :
    OnlyEqualsAndRegex(n) =>
      /\ log[n].threw => log[n].outcome # "none"
      /\ \A id \in Range(log[n].attempts) : ~HasBadPattern(rules[id])
      /\ (log[n].returned /\ ~log[n].threw) =>
           IF Firing(n) = {} THEN log[n].evaluated = log[n].candidates
           ELSE /\ log[n].evaluated = SubSeq(log[n].candidates, 1, Min(Firing(n)))
                /\ log[n].attempts = <<log[n].candidates[Min(Firing(n))]>>

\* a rule whose pattern does not compile was evaluated on a truthy value
\* before the rule that then fired, and a later notification was handled to
\* its end with that rule evaluated again
C12_Witness ==
  \E m, n \in DOMAIN log :
    /\ m < n /\ log[m].returned /\ log[n].returned
    /\ Truthy(getMetadataValue(log[m].metadata, "status"))
    /\ Len(log[m].evaluated) = 2 /\ HasBadPattern(rules[log[m].evaluated[1]])
    /\ log[m].attempts = <<log[m].evaluated[2]>>
    /\ \E id \in Range(log[n].evaluated) : HasBadPattern(rules[id])
    /\ Truthy(getMetadataValue(log[n].metadata, "status"))

\* the snapshot of a call is empty: a frontmatter object without any field
IsEmptySnapshot(metadata) ==
  metadata.hasFrontmatter /\ metadata.frontmatter = EmptyFrontmatter

\* C13: checkRuleConditions returns false for every rule, one with zero
\* conditions included, when the snapshot is absent (no frontmatter) or empty
\* (a frontmatter object without fields).
C13_FalseWithoutSnapshot ==
  \A c \in DOMAIN log :
    (~log[c].metadata.hasFrontmatter \/ IsEmptySnapshot(log[c].metadata)) =>
      log[c].result = "false"

\* the result of the k-th condition of a call, taken by itself
ResultOf(c, k) == ConditionResult(log[c].metadata, log[c].rule.conditions[k])

\* C14: on a non-empty snapshot checkRuleConditions is the conjunction of the
\* results of the rule's conditions taken in order and stopped at the first
\* that is not true: true iff every condition is true (so a rule with zero
\* conditions is true), false iff the first condition that is not true is
\* false; no condition after that one counts.
C14_ConjunctionInOrder ==
  \A c \in DOMAIN log :
    (log[c].metadata.hasFrontmatter /\ ~IsEmptySnapshot(log[c].metadata)) =>
      LET conds == DOMAIN log[c].rule.conditions
      IN  /\ log[c].result = "true" <=> \A k \in conds : ResultOf(c, k) = "true"
          /\ log[c].result = "false" <=>
               \E k \in conds : /\ ResultOf(c, k) = "false"
                                /\ \A j \in 1..(k - 1) : ResultOf(c, j) = "true"

\* the call stopped at a false first condition: the second one, which would
\* throw by itself, was not evaluated
C14_Witness ==
  \E c \in DOMAIN log :
    /\ log[c].metadata.hasFrontmatter /\ ~IsEmptySnapshot(log[c].metadata)
    /\ Len(log[c].rule.conditions) = 2
    /\ ResultOf(c, 1) = "false" /\ ResultOf(c, 2) = "throw"
    /\ log[c].result = "false"

\* the call is for a rule whose only condition has the operator equals
SingleEquals(c) ==
  /\ Len(log[c].rule.conditions) = 1
  /\ log[c].rule.conditions[1].operator = "equals"

\* C15: a condition with the operator equals is true exactly when the snapshot
\* has a truthy value for the field and that value is the string
\* condition.value (strict equality: same type, same characters); it is false
\* when the field is missing or its value is falsy, and it never throws.
C15_EqualsIsStrict ==
  \A c \in DOMAIN log :
    SingleEquals(c) =>
      LET cond == log[c].rule.conditions[1]
          has == log[c].metadata.hasFrontmatter
          value == log[c].metadata.frontmatter[cond.field]
      IN  log[c].result =
            IF has /\ Truthy(value) /\ value = Str(cond.value)
            THEN "true" ELSE "false"

\* an equals condition with the value "5" was evaluated on the number 5
C15_Witness ==
  \E c \in DOMAIN log :
    /\ SingleEquals(c) /\ log[c].metadata.hasFrontmatter
    /\ log[c].rule.conditions[1].value = Five
    /\ log[c].metadata.frontmatter[log[c].rule.conditions[1].field] = Num(5)
    /\ log[c].result = "false"

\* C16: a notification that arrives while the plugin is disabled, or for
\* which there is no metadata, is a no-op: every step that delivers a
\* notification either leaves both caches, every invocation, the document and
\* the history as they were, or was taken with the plugin enabled and starts
\* the handling of metadata that is not null.
C16_IgnoredIsNoOp ==
  [][events' # events =>
       \/ UNCHANGED <<lastMetadataCache, appliedRulesCache, handlers, docPath, log>>
       \/ /\ enabled
          /\ Len(log') = Len(log) + 1
          /\ ~log'[Len(log')].metadata.isNull]_vars

\* a notification was ignored by the disabled plugin in a behaviour in which
\* the caches hold entries and an invocation is awaiting its move
C16_Witness ==
  /\ ~enabled /\ events > Len(log)
  /\ \E q \in Paths : lastMetadataCache[q].present
  /\ \E q \in Paths : appliedRulesCache[q].present
  /\ \E h \in HandlerIds : handlers[h].pc = "awaitRename"

\* every notification so far arrived while no invocation was suspended
AllQuiet == \A n \in DOMAIN log : Quiet(n)

\* C18: applied-set entries are never lost: the id an invocation recorded at
\* line 121 is, from then on, in the applied Set of some path of the document
\* (the path it was recorded under, or a path the Set was re-keyed to).
C18_AppliedNeverLost ==
  AllQuiet =>
    \A n \in DOMAIN log :
      (log[n].returned /\ ~log[n].threw /\ log[n].attempts # <<>>) =>
        \E q \in Paths : log[n].attempts[1] \in appliedRulesCache[q].ids

\* the handled notifications for path q
OnPath(q) == {n \in DOMAIN log : log[n].path = q}

\* what the notifications alone leave in lastMetadataCache[q]
LastStored(q) ==
  IF OnPath(q) = {} THEN NoSnapshot
  ELSE Snapshot(FrontmatterOrEmpty(log[Max(OnPath(q))].metadata))

\* C19: a move leaves lastMetadataCache alone: after a successful move from A
\* to B the entries under A and under B are what the notifications handled
\* for those paths stored (none under B when none was handled there), and a
\* notification that is the first for B reads no previous snapshot.
C19_MoveLeavesSnapshots ==
  \A n \in DOMAIN log :
    (log[n].outcome = "ok" /\ (log[n].returned \/ \E h \in HandlerIds :
        handlers[h].ev = n /\ handlers[h].pc = "awaitMove")) =>
      /\ lastMetadataCache[log[n].path] = LastStored(log[n].path)
      /\ lastMetadataCache[log[n].to] = LastStored(log[n].to)
      /\ \A m \in DOMAIN log :
           (m > n /\ log[m].path = log[n].to /\ EarlierOnPath(m) = {}) =>
             ~log[m].old.present

\* after a successful move into a path that had no entry, a notification for
\* the document at the new path was handled as a first observation, and the
\* entry under the old path is still there
C19_Witness ==
  \E n, m \in DOMAIN log :
    /\ log[n].outcome = "ok" /\ log[n].returned
    /\ m > n /\ log[m].path = log[n].to /\ EarlierOnPath(m) = {}
    /\ ~log[m].old.present /\ log[m].returned
    /\ lastMetadataCache[log[n].path].present

\* C20: the matchedBefore computed at line 106 for a rule is the matchesNow
\* the rule had on the snapshot of the previous handled notification for the
\* path, whatever that snapshot was, a document without frontmatter included.
C20_MatchedBeforeIsPreviousMatchesNow ==
  AllQuiet =>
    \A h \in HandlerIds :
      (handlers[h].pc = "awaitBefore" /\ EarlierOnPath(handlers[h].ev) # {}) =>
        handlers[h].matchedBefore
          = Matches(handlers[h].matchingRules[handlers[h].i],
                    log[Max(EarlierOnPath(handlers[h].ev))].metadata)

\* C17: rule identity: the rules handleMetadataChange reads at lines 82-85
\* all have an id, and no two of them have the same id: the candidates it
\* builds hold no undefined id and no id twice.
C17_RulesHaveDistinctIds ==
  \A n \in DOMAIN log :
    /\ UndefinedId \notin Range(log[n].candidates)
    /\ \A j, k \in DOMAIN log[n].candidates :
         j # k => log[n].candidates[j] # log[n].candidates[k]

\* the successful moves so far
Moves == {n \in DOMAIN log : log[n].outcome = "ok"}

\* the chain is over: every invocation has ended and the latest notification
\* made no move
ChainAtRest ==
  /\ log # <<>>
  /\ \A h \in HandlerIds : handlers[h].pc = "idle"
  /\ log[Len(log)].outcome \in {"none", "failed"}

\* C21: no unbounded relocation chain: with the frontmatter unchanged and one
\* notification after each successful move, whatever the rules, no path is
\* left by a successful move twice, so there are at most as many moves as
\* paths, and the host never runs out of the notifications it may deliver:
\* the chain ends by a notification that makes no move.
C21_NoUnboundedChain ==
  /\ \A m, n \in Moves : m # n => log[m].path # log[n].path
  /\ Cardinality(Moves) <= Cardinality(Paths)
  /\ events < MaxChain

\* the same as a property of the behaviours of SpecChain: from some point on
\* the chain is at rest
ChainComesToRest == <>[]ChainAtRest

\* a chain of three moves, the third by a rule that had already moved the
\* document once, came to rest
C21_Witness ==
  /\ ChainAtRest
  /\ Cardinality(Moves) >= 3
  /\ \E m, n \in Moves : m # n /\ log[m].attempts = log[n].attempts

\* the n-th notification arrived while the invocation of the m-th was
\* suspended with its move pending or completed
ArrivedDuringMove(m, n) ==
  \E a \in log[n].active :
    a[1] = m /\ a[2] \in {"awaitRename", "renamed", "awaitMove"}

\* C22: overlapping invocations: when a notification for a path arrives while
\* an earlier invocation for the same path has a move by some rule pending or
\* completed, the later invocation starts no move by that rule. Stated for
\* the behaviours in which every notification arrives at a task boundary.
C22_NoSecondMoveWhilePending ==
  (\A k \in DOMAIN log : AtTaskBoundary(k)) =>
    \A m, n \in DOMAIN log :
      (ArrivedDuringMove(m, n) /\ log[m].path = log[n].path) =>
        \A id \in Range(log[m].attempts) : id \notin Range(log[n].attempts)

====
